---- MODULE Spec2Model ----
(***************************************************************************)
(* pomodoro_rs (src/src/main.rs): the main thread that runs the chosen     *)
(* command (start, break, schedule, or the default loop when no command   *)
(* is given), the per-second countdown, the task                           *)
(* log, the completion notifier, the background sound threads and the      *)
(* Ctrl+C handler thread.                                                  *)
(***************************************************************************)
EXTENDS Integers, Sequences, FiniteSets, Bags, TLC

\* ------------------------------------------------------------------ bounds
MaxMinutes == 1

MaxSessions == 2

\* the default loop: cycles the operator lets run before the answer is no longer yes
MaxCycles == 2

\* main, None arm: run_work_session(25, ..)
DefaultWorkMinutes == 25

\* main, None arm: run_break(5, false, ..)
DefaultBreakMinutes == 5

\* run_fancy_timer: let total_seconds = minutes * 60
SecondsPerMinute == 60

Minutes == 0..MaxMinutes

\* --task is an Option<String>: <<>> is None, <<t>> is Some(t)
TaskArgs == {<<>>, <<"write spec">>}

\* wall-clock readings (seconds since local midnight of day 0) at process start:
\* noon, and 90 seconds before midnight
ClockStarts == {43200, 86310}

VARIABLES
    cmd,          \* the parsed command line (Cli.command)
    mul,          \* run_fancy_timer on a duration of the whole u64 range: [minutes, build, out]
    answers,      \* history: what each "Start another Pomodoro cycle?" prompt returned, in order
    env,          \* what surrounds the process during this run (home, disk, notifier, audio, operator)
    pc,           \* where the main thread is
    i,            \* run_schedule: the loop variable
    cur,          \* the interval being run: <<>> or <<[kind, minutes, timer_type, description]>>
    range_end,    \* run_fancy_timer: exclusive upper end of the reversed range not yet yielded
    ticks,        \* run_fancy_timer: loop iterations completed in this call
    slept,        \* run_fancy_timer: seconds slept in this call
    status,       \* the status line on the terminal: <<>> or <<line>>
    clock,        \* the wall clock, in seconds
    intervals,    \* history: the intervals started so far, in order
    trace,        \* history: the events of the main thread, in order
    dir_exists,   \* ~/.completed_tasks exists
    files,        \* the files of ~/.completed_tasks: name -> lines
    log_ok,       \* history: the log entries whose write succeeded, in call order
    stdout_n,     \* number of fallback lines notify printed
    stdout_last,  \* the last fallback line notify printed: <<>> or <<line>>
    show_errs,    \* history: number of Notification::show calls that returned Err
    sounds,       \* the sound threads alive, a bag of thread states
    sound_done,   \* the outcome of the sound thread that ended last: <<>> or <<outcome>>
    spawned,      \* number of sound threads spawned so far
    sig,          \* the Ctrl+C handler thread: "none", "raised", "printed"
    sig_iv        \* history: the interval whose countdown was in progress when Ctrl+C arrived, or 0

vars == <<cmd, env, answers, mul, pc, i, cur, range_end, ticks, slept, status, clock, intervals, trace,
          dir_exists, files, log_ok, stdout_n, stdout_last, show_errs,
          sounds, sound_done, spawned, sig, sig_iv>>

mainVars == <<cmd, env, answers, mul, pc, i, cur, range_end, ticks, slept, status, clock, intervals, trace>>
timerVars == <<range_end, ticks, slept, status, clock>>
fsVars == <<dir_exists, files, log_ok>>
outVars == <<stdout_n, stdout_last, show_errs>>
soundVars == <<sounds, sound_done, spawned>>
sigVars == <<sig, sig_iv>>

\* ------------------------------------------------------------ command line
\* Commands::Start { duration, task }
StartCmds ==
    {[kind |-> "start", duration |-> d, long |-> FALSE, sessions |-> 0, work |-> 0,
      short_break |-> 0, long_break |-> 0, task |-> t] : d \in Minutes, t \in TaskArgs}

\* Commands::Break { duration, long }
BreakCmds ==
    {[kind |-> "break", duration |-> d, long |-> l, sessions |-> 0, work |-> 0,
      short_break |-> 0, long_break |-> 0, task |-> <<>>] : d \in Minutes, l \in BOOLEAN}

\* Commands::Schedule { sessions, work, short_break, long_break, task }
ScheduleCmds ==
    {[kind |-> "schedule", duration |-> 0, long |-> FALSE, sessions |-> n, work |-> w,
      short_break |-> s, long_break |-> l, task |-> t] :
        n \in 0..MaxSessions, w \in Minutes, s \in Minutes, l \in Minutes, t \in TaskArgs}

Commands == StartCmds \cup BreakCmds \cup ScheduleCmds

\* Cli.command = None: no subcommand was given
NoCommand ==
    [kind |-> "default", duration |-> 0, long |-> FALSE, sessions |-> 0, work |-> 0,
     short_break |-> 0, long_break |-> 0, task |-> <<>>]

\* task.clone().unwrap_or_else(|| "no description".to_string())
task_desc_ignored(task) == "no description"

task_desc(task) == IF task = <<>> THEN "no description" ELSE task[1]

\* -------------------------------------------------------------- wall clock
\* now.format("%Y%m%d"): the calendar day of a clock reading
Ymd(now) == now \div 86400

\* now.format("%H:%M:%S")
Hms(now) ==
    LET tod == now % 86400
    IN  <<tod \div 3600, (tod % 3600) \div 60, tod % 60>>

\* ------------------------------------------------------------- initial state
\* ~/.completed_tasks before the run: absent, or holding one line of an earlier run
\* of the same day
EarlierEntry == [file |-> Ymd(43200), line |-> [hms |-> Hms(32400), task |-> "earlier"]]

\* the surroundings of a run. home: home_dir() resolves; disk "faulty": create_dir_all,
\* open and write_all may each fail; notifier "flaky": Notification::show may fail;
\* audio "flaky": play_sound may fail; exe_ok: current_exe() succeeds; sound_files: the
\* candidate sound files that exist; operator "interrupts": Ctrl+C may be pressed
Quiet ==
    [home |-> TRUE, disk |-> "ok", notifier |-> "up", audio |-> "ok", exe_ok |-> TRUE,
     sound_files |-> {}, operator |-> "stays"]

\* the runs explored: [cmd, env, clock, earlier], earlier saying whether
\* ~/.completed_tasks already holds a line of an earlier run
Run(c, e, t, f) == [cmd |-> c, env |-> e, clock |-> t, earlier |-> f]

\* every command line, in quiet surroundings
QuietRuns == {Run(c, Quiet, 43200, FALSE) : c \in Commands}

\* runs where every auxiliary step may fail; schedules of one or two sessions, as each
\* further session adds sound threads that interleave with everything else
FailingRuns ==
    {Run(c, e, 43200, FALSE) :
        c \in {x \in ScheduleCmds \cup StartCmds \cup BreakCmds :
                 /\ x.short_break = 0 /\ x.long_break = 0
                 /\ x.task # <<>> \/ x.kind = "break"
                 /\ x.kind = "schedule" => x.sessions \in {1, 2}},
        e \in {[Quiet EXCEPT !.home = FALSE],
               [Quiet EXCEPT !.disk = "faulty", !.notifier = "flaky", !.audio = "flaky",
                             !.sound_files = {"assets/alert.wav"}]}}

\* work sessions that log around noon or across midnight, on a disk that may fail,
\* into a directory that is absent or already holds a line
LoggingRuns ==
    {Run(c, [Quiet EXCEPT !.disk = "faulty"], t, f) :
        c \in {x \in ScheduleCmds :
                 /\ x.sessions >= 1 /\ x.short_break = 0 /\ x.long_break = 0
                 /\ x.task # <<>>},
        t \in ClockStarts, f \in BOOLEAN}

\* runs during which the operator may press Ctrl+C
InterruptedRuns ==
    {Run(c, [Quiet EXCEPT !.operator = "interrupts"], 43200, FALSE) :
        c \in {x \in Commands :
                 /\ x.task # <<>> \/ x.kind = "break"
                 /\ x.kind = "schedule" =>
                      /\ x.sessions >= 1
                      /\ x.short_break = x.work
                      /\ x.long_break = x.work}}

\* the candidate sound files that exist on disk
SoundFileSets ==
    {{"assets/alert.wav"}, {"src/assets/alert.wav", "alert.wav"}}

\* runs with sound files on disk and an audio device that may fail; schedules of one
\* or two sessions
SoundRuns ==
    {Run(c, [Quiet EXCEPT !.audio = "flaky", !.sound_files = fs, !.exe_ok = x], 43200, FALSE) :
        c \in {y \in ScheduleCmds \cup BreakCmds :
                 /\ y.work = 0 /\ y.short_break = 0
                 /\ y.kind = "schedule" => y.sessions \in {1, 2} /\ y.task # <<>>},
        fs \in SoundFileSets, x \in BOOLEAN}

\* the default loop, in quiet surroundings
DefaultRuns == {Run(NoCommand, Quiet, 43200, FALSE)}

Runs ==
    QuietRuns \cup FailingRuns \cup LoggingRuns \cup InterruptedRuns \cup SoundRuns
        \cup DefaultRuns

Launch(Rs) ==
    /\ \E r \in Rs :
         /\ cmd = r.cmd
         /\ env = r.env
         /\ clock = r.clock
         /\ IF r.earlier
            THEN /\ dir_exists = TRUE
                 /\ files = (EarlierEntry.file :> <<EarlierEntry.line>>)
                 /\ log_ok = <<EarlierEntry>>
            ELSE /\ dir_exists = FALSE
                 /\ files = <<>>
                 /\ log_ok = <<>>
    /\ answers = <<>>
    /\ pc = "main"
    /\ i = 0
    /\ cur = <<>>
    /\ range_end = 0
    /\ ticks = 0
    /\ slept = 0
    /\ status = <<>>
    /\ intervals = <<>>
    /\ trace = <<>>
    /\ stdout_n = 0
    /\ stdout_last = <<>>
    /\ show_errs = 0
    /\ sounds = EmptyBag
    /\ sound_done = <<>>
    /\ spawned = 0
    /\ sig = "none"
    /\ sig_iv = 0

\* no duration beyond the model's Minutes is under study
NoMul == [minutes |-> <<>>, build |-> "release", out |-> <<>>]

Init == Launch(Runs) /\ mul = NoMul

\* the process runs: main has not returned and exit has not been called
Alive == pc \notin {"done", "exited"}

\* ---------------------------------------------------------- countdown timer
\* a u64 is held as four 16-bit limbs, least significant first
Limb == 2^16

\* the u64 of a number below 2^31
u64_of(n) == <<n % Limb, (n \div Limb) % Limb, 0, 0>>

\* the number of a u64 below 2^31
int_of(d) == d[1] + Limb * d[2]

RECURSIVE mul_limbs(_, _, _, _)
mul_limbs(a, m, k, carry) ==
    IF k > Len(a) THEN [digits |-> <<>>, carry |-> carry]
    ELSE LET p == a[k] * m + carry
             rest == mul_limbs(a, m, k + 1, p \div Limb)
         IN  [digits |-> <<p % Limb>> \o rest.digits, carry |-> rest.carry]

\* a * m on u64: digits are the low 64 bits of the product, carry is what did not fit
mul_u64(a, m) == mul_limbs(a, m, 1, 0)

\* run_fancy_timer: let total_seconds = minutes * 60, for the durations of Minutes
\* (whose product always fits)
total_seconds(minutes) == int_of(mul_u64(u64_of(minutes), SecondsPerMinute).digits)

countdown_range_inclusive(total) == total + 1

\* run_fancy_timer: (0..total_seconds).rev(), held as the exclusive upper end of
\* what the reversed range has not yielded yet
countdown_range(total) == total

\* a call of run_fancy_timer(minutes, timer_type, description) for an interval of
\* the given kind: the interval is created and the countdown is set up
run_fancy_timer(kind, minutes, timer_type, description) ==
    /\ cur' = <<[kind |-> kind, minutes |-> minutes, timer_type |-> timer_type,
                 description |-> description]>>
    /\ range_end' = countdown_range(total_seconds(minutes))
    /\ ticks' = 0
    /\ slept' = 0
    /\ intervals' = Append(intervals, [kind |-> kind, minutes |-> minutes,
                                       label |-> description])
    /\ trace' = Append(trace, <<"start", Len(intervals) + 1>>)
    /\ pc' = "timer"
    /\ UNCHANGED <<status, clock>>

\* one iteration of the countdown loop: the status line, then a sleep of one second
tick ==
    /\ Alive
    /\ pc = "timer"
    /\ range_end > 0
    /\ LET remaining == range_end - 1
           mins == remaining \div 60
           secs == remaining % 60
           end_time == clock + remaining
       IN  /\ range_end' = remaining
           /\ status' = <<[timer_type |-> cur[1].timer_type,
                           end_time |-> Hms(end_time),
                           mmss |-> <<mins, secs>>,
                           description |-> cur[1].description]>>
    /\ ticks' = ticks + 1
    /\ slept' = slept + 1
    /\ clock' = clock + 1
    /\ UNCHANGED <<cmd, env, answers, mul, pc, i, cur, intervals, trace>>
    /\ UNCHANGED <<fsVars, outVars, soundVars, sigVars>>

after_timer_notify_first(kind) == "notify"

after_timer_log_always(kind) == "log"

\* what the caller of run_fancy_timer does next: run_work_session logs the task,
\* run_break goes straight to notify
after_timer(kind) == IF kind = "Work" THEN "log" ELSE "notify"

\* the countdown loop is exhausted: println!("") and return to the caller
timer_return ==
    /\ Alive
    /\ pc = "timer"
    /\ range_end = 0
    /\ trace' = Append(trace, <<"zero", Len(intervals)>>)
    /\ pc' = after_timer(cur[1].kind)
    /\ UNCHANGED <<cmd, env, answers, mul, i, cur, intervals, timerVars>>
    /\ UNCHANGED <<fsVars, outVars, soundVars, sigVars>>

\* run_work_session(minutes, task_desc): starts with run_fancy_timer
run_work_session(minutes, desc) ==
    run_fancy_timer("Work", minutes, "Pomodoro", desc)

\* run_break(minutes, is_long): starts with run_fancy_timer
run_break(minutes, is_long) ==
    run_fancy_timer(IF is_long THEN "LongBreak" ELSE "ShortBreak", minutes,
                    IF is_long THEN "Long Break" ELSE "Short Break", "Time to relax")

\* ----------------------------------------------------------- task log writer
\* what home_dir, create_dir_all, open and write_all can do to a call
LogOutcomes(e) ==
    IF ~e.home THEN {"no_home"}
    ELSE IF e.disk = "faulty" THEN {"mkdir_err", "open_err", "write_err", "ok"}
    ELSE {"ok"}

\* completed_dir.join(format!("{}.txt", now.format("%Y%m%d")))
log_file_name(now) == Ymd(now)

\* format!("{} | {}\n", now.format("%H:%M:%S"), task_desc)
log_entry(now, desc) == [hms |-> Hms(now), task |-> desc]

open_truncate(fs, name) ==
    [n \in DOMAIN fs \cup {name} |-> IF n = name THEN <<>> ELSE fs[n]]

\* OpenOptions::new().create(true).append(true).open(file_path)
open_append(fs, name) ==
    [n \in DOMAIN fs \cup {name} |-> IF n \in DOMAIN fs THEN fs[n] ELSE <<>>]

\* file.write_all(log_entry.as_bytes()) on a file opened for appending
write_all(fs, name, entry) == [fs EXCEPT ![name] = Append(@, entry)]

after_log_abort(outcome) == IF outcome = "ok" THEN "notify" ELSE "done"

\* log_completed_task returns () on every path and run_work_session goes on to notify
after_log(outcome) == "notify"

log_completed_task ==
    /\ Alive
    /\ pc = "log"
    /\ LET desc == cur[1].description
           now == clock
           name == log_file_name(now)
       IN  \E outcome \in LogOutcomes(env) :
             /\ dir_exists' = IF outcome \in {"no_home", "mkdir_err"}
                              THEN dir_exists ELSE TRUE
             /\ files' = CASE outcome \in {"no_home", "mkdir_err", "open_err"} -> files
                           [] outcome = "write_err" -> open_append(files, name)
                           [] outcome = "ok" ->
                                write_all(open_append(files, name), name,
                                          log_entry(now, desc))
             /\ log_ok' = IF outcome = "ok"
                          THEN Append(log_ok, [file |-> name, line |-> log_entry(now, desc)])
                          ELSE log_ok
             /\ pc' = after_log(outcome)
    /\ trace' = Append(trace, <<"log", Len(intervals)>>)
    /\ UNCHANGED <<cmd, env, answers, mul, i, cur, intervals, timerVars>>
    /\ UNCHANGED <<outVars, soundVars, sigVars>>

\* -------------------------------------------------------- completion notifier
\* the thread thread::spawn creates: it has not run yet
NewSoundThread == [st |-> "spawned", tried |-> <<>>, played |-> <<>>, errs |-> 0]

play_alert_sound_joined(threads) == threads

\* play_alert_sound: thread::spawn(...), the JoinHandle is dropped
play_alert_sound(threads) == threads (+) SetToBag({NewSoundThread})

\* what notify_rust::Notification::show can do to a call: TRUE is Ok
ShowOutcomes(e) == IF e.notifier = "flaky" THEN BOOLEAN ELSE {TRUE}

\* the title and message run_work_session and run_break pass to notify
notify_title(iv) == IF iv.kind = "Work" THEN "Pomodoro completed!" ELSE "Break ended!"

notify_message(iv) ==
    IF iv.kind = "Work"
    THEN [text |-> "You completed a pomodoro", minutes |-> iv.minutes,
          task |-> iv.description]
    ELSE [text |-> "Your break has ended", minutes |-> iv.minutes, task |-> ""]

notify_fallback_silent(shown, out, line) == out

\* notify: match ..show() { Ok(_) => (), Err(_) => println!("\n{}: {}", title, message) }
\* out is <<number of lines printed, last line printed>>
notify_fallback(shown, out, line) ==
    IF shown THEN out ELSE <<out[1] + 1, <<line>>>>

notify ==
    /\ Alive
    /\ pc = "notify"
    /\ \E shown \in ShowOutcomes(env) :
         LET out == notify_fallback(shown, <<stdout_n, stdout_last>>,
                                    [title |-> notify_title(cur[1]),
                                     message |-> notify_message(cur[1])])
         IN  /\ stdout_n' = out[1]
             /\ stdout_last' = out[2]
             /\ show_errs' = IF shown THEN show_errs ELSE show_errs + 1
    /\ sounds' = play_alert_sound(sounds)
    /\ spawned' = spawned + 1
    /\ trace' = Append(trace, <<"notify", Len(intervals)>>)
    /\ pc' = "ret"
    /\ UNCHANGED <<cmd, env, answers, mul, i, cur, intervals, timerVars>>
    /\ UNCHANGED <<fsVars, sound_done, sigVars>>

\* ------------------------------------------------------------- sound thread
\* play_alert_sound: the vec! of candidate paths; the third is next to the
\* executable, or alert.wav when current_exe() fails
sound_paths(exe_ok) ==
    <<"src/assets/alert.wav",
      "assets/alert.wav",
      IF exe_ok THEN "<exe dir>/assets/alert.wav" ELSE "alert.wav",
      "alert.wav">>

RECURSIVE sound_loop_no_break(_, _, _, _, _)
sound_loop_no_break(paths, existing, plays, k, acc) ==
    IF k > Len(paths) THEN acc
    ELSE IF paths[k] \in existing
         THEN IF plays[k] = "ok"
              THEN sound_loop_no_break(paths, existing, plays, k + 1,
                       [acc EXCEPT !.tried = Append(@, k), !.played = Append(@, k)])
              ELSE sound_loop_no_break(paths, existing, plays, k + 1,
                       [acc EXCEPT !.tried = Append(@, k), !.errs = @ + 1])
         ELSE sound_loop_no_break(paths, existing, plays, k + 1, acc)

\* play_alert_sound: for sound_path in sound_paths { if sound_path.exists() { match
\* play_sound(..) { Ok => break, Err => { eprintln!(..); continue } } } }
\* plays[k] is what play_sound does for candidate k when it is called
RECURSIVE sound_loop(_, _, _, _, _)
sound_loop(paths, existing, plays, k, acc) ==
    IF k > Len(paths) THEN acc
    ELSE IF paths[k] \in existing
         THEN IF plays[k] = "ok"
              THEN [acc EXCEPT !.tried = Append(@, k), !.played = Append(@, k)]
              ELSE sound_loop(paths, existing, plays, k + 1,
                       [acc EXCEPT !.tried = Append(@, k), !.errs = @ + 1])
         ELSE sound_loop(paths, existing, plays, k + 1, acc)

\* what play_sound can do to a call
PlayOutcomes(e) == IF e.audio = "flaky" THEN {"ok", "err"} ELSE {"ok"}

\* a spawned thread runs: it goes through the candidates until play_sound has
\* started one (it then blocks in sink.sleep_until_end()) or none is left (it ends)
sound_run ==
    /\ Alive
    /\ \E t \in BagToSet(sounds), plays \in [1..4 -> PlayOutcomes(env)] :
         /\ t.st = "spawned"
         /\ LET r == sound_loop(sound_paths(env.exe_ok), env.sound_files, plays, 1, t)
                rest == sounds (-) SetToBag({t})
            IN  IF r.played # <<>>
                THEN /\ sounds' = rest (+) SetToBag({[r EXCEPT !.st = "playing"]})
                     /\ UNCHANGED sound_done
                ELSE /\ sounds' = rest
                     /\ sound_done' = <<[r EXCEPT !.st = "ended"]>>
    /\ UNCHANGED <<mainVars, fsVars, outVars, sigVars, spawned>>

\* play_sound: sink.sleep_until_end() returns, play_sound returns Ok, the loop
\* breaks and the thread ends
sound_end ==
    /\ Alive
    /\ \E t \in BagToSet(sounds) :
         /\ t.st = "playing"
         /\ sounds' = sounds (-) SetToBag({t})
         /\ sound_done' = <<[t EXCEPT !.st = "ended"]>>
    /\ UNCHANGED <<mainVars, fsVars, outVars, sigVars, spawned>>

\* ------------------------------------------------------------ Ctrl+C handler
\* the operator presses Ctrl+C: the ctrlc crate's thread wakes up to run the handler
ctrlc_signal ==
    /\ Alive
    /\ env.operator = "interrupts"
    /\ sig = "none"
    /\ sig' = "raised"
    /\ sig_iv' = IF pc = "timer" /\ range_end > 0 THEN Len(intervals) ELSE 0
    /\ UNCHANGED <<mainVars, fsVars, outVars, soundVars>>

\* the handler: println!()
ctrlc_println ==
    /\ Alive
    /\ sig = "raised"
    /\ sig' = "printed"
    /\ UNCHANGED <<mainVars, fsVars, outVars, soundVars, sig_iv>>

\* the handler: std::process::exit(0)
ctrlc_exit ==
    /\ Alive
    /\ sig = "printed"
    /\ pc' = "exited"
    /\ UNCHANGED <<cmd, env, answers, mul, i, cur, intervals, trace, timerVars>>
    /\ UNCHANGED <<fsVars, outVars, soundVars, sigVars>>

\* ---------------------------------------------------------------------- main
\* Commands::Start => run_work_session(*duration, &task_desc, ..)
main_start ==
    /\ pc = "main"
    /\ cmd.kind = "start"
    /\ run_work_session(cmd.duration, task_desc(cmd.task))
    /\ UNCHANGED <<cmd, env, answers, mul, i>>
    /\ UNCHANGED <<fsVars, outVars, soundVars, sigVars>>

\* Commands::Break => run_break(*duration, *long, ..)
main_break ==
    /\ pc = "main"
    /\ cmd.kind = "break"
    /\ run_break(cmd.duration, cmd.long)
    /\ UNCHANGED <<cmd, env, answers, mul, i>>
    /\ UNCHANGED <<fsVars, outVars, soundVars, sigVars>>

\* Commands::Schedule => run_schedule(..): for i in 1..=sessions, first iteration
main_schedule ==
    /\ pc = "main"
    /\ cmd.kind = "schedule"
    /\ IF 1 <= cmd.sessions
       THEN /\ i' = 1
            /\ run_work_session(cmd.work, task_desc(cmd.task))
       ELSE /\ pc' = "done"
            /\ UNCHANGED <<i, cur, intervals, trace, timerVars>>
    /\ UNCHANGED <<cmd, env, answers, mul>>
    /\ UNCHANGED <<fsVars, outVars, soundVars, sigVars>>

is_last_session_never(k, sessions) == FALSE

\* run_schedule: if i < sessions { short break } else { long break }
is_last_session(k, sessions) == ~(k < sessions)

\* run_schedule: run_work_session has returned, the break of session i follows
run_schedule_break ==
    /\ Alive
    /\ pc = "ret"
    /\ cmd.kind = "schedule"
    /\ cur[1].kind = "Work"
    /\ IF is_last_session(i, cmd.sessions)
       THEN run_break(cmd.long_break, TRUE)
       ELSE run_break(cmd.short_break, FALSE)
    /\ UNCHANGED <<cmd, env, answers, mul, i>>
    /\ UNCHANGED <<fsVars, outVars, soundVars, sigVars>>

\* run_schedule: run_break has returned, the for loop goes on or ends
run_schedule_next ==
    /\ Alive
    /\ pc = "ret"
    /\ cmd.kind = "schedule"
    /\ cur[1].kind # "Work"
    /\ IF i < cmd.sessions
       THEN /\ i' = i + 1
            /\ run_work_session(cmd.work, task_desc(cmd.task))
       ELSE /\ pc' = "done"
            /\ UNCHANGED <<i, cur, intervals, trace, timerVars>>
    /\ UNCHANGED <<cmd, env, answers, mul>>
    /\ UNCHANGED <<fsVars, outVars, soundVars, sigVars>>

\* run_work_session or run_break has returned to main, which returns
main_return ==
    /\ Alive
    /\ pc = "ret"
    /\ cmd.kind \in {"start", "break"}
    /\ pc' = "done"
    /\ UNCHANGED <<cmd, env, answers, mul, i, cur, intervals, trace, timerVars>>
    /\ UNCHANGED <<fsVars, outVars, soundVars, sigVars>>

\* what Input::interact_text() returns to "What are you working on? (optional)":
\* Ok(text), the text possibly empty, or Err when the prompt cannot be shown
TaskInputs ==
    {[ok |-> TRUE, text |-> ""], [ok |-> TRUE, text |-> "write spec"],
     [ok |-> FALSE, text |-> ""]}

\* .interact_text().unwrap_or_else(|_| "".to_string())
input_or_empty(r) == IF r.ok THEN r.text ELSE ""

\* if task.is_empty() { "Focused work" } else { task }
default_task_desc(task) == IF task = "" THEN "Focused work" ELSE task

\* one pass through the head of the loop: the task prompt, then run_work_session(25, ..)
default_cycle ==
    \E r \in TaskInputs :
        run_work_session(DefaultWorkMinutes, default_task_desc(input_or_empty(r)))

\* None => the default loop, first iteration
main_default ==
    /\ pc = "main"
    /\ cmd.kind = "default"
    /\ default_cycle
    /\ UNCHANGED <<cmd, env, answers, mul, i>>
    /\ UNCHANGED <<fsVars, outVars, soundVars, sigVars>>

\* the default loop: run_work_session has returned, run_break(5, false, ..) follows
default_break ==
    /\ Alive
    /\ pc = "ret"
    /\ cmd.kind = "default"
    /\ cur[1].kind = "Work"
    /\ run_break(DefaultBreakMinutes, FALSE)
    /\ UNCHANGED <<cmd, env, answers, mul, i>>
    /\ UNCHANGED <<fsVars, outVars, soundVars, sigVars>>

\* what Confirm::interact() returns: Ok(true), Ok(false), or Err when the prompt
\* cannot be answered interactively
ConfirmOutcomes == {"yes", "no", "err"}

confirm_or_true(a) == a # "no"

\* .interact().unwrap_or(false)
confirm_or_false(a) == a = "yes"

\* the default loop: run_break has returned, the operator is asked whether to go on;
\* the loop goes round again or breaks, and main returns
default_confirm ==
    /\ Alive
    /\ pc = "ret"
    /\ cmd.kind = "default"
    /\ cur[1].kind # "Work"
    /\ \E a \in ConfirmOutcomes :
          /\ answers' = Append(answers, a)
          /\ IF confirm_or_false(a)
             THEN /\ Len(answers) + 1 < MaxCycles
                  /\ default_cycle
             ELSE /\ pc' = "done"
                  /\ UNCHANGED <<cur, intervals, trace, timerVars>>
    /\ UNCHANGED <<cmd, env, mul, i>>
    /\ UNCHANGED <<fsVars, outVars, soundVars, sigVars>>

Next ==
    \/ main_start
    \/ main_break
    \/ main_schedule
    \/ tick
    \/ timer_return
    \/ log_completed_task
    \/ notify
    \/ run_schedule_break
    \/ run_schedule_next
    \/ main_return
    \/ main_default
    \/ default_break
    \/ default_confirm
    \/ sound_run
    \/ sound_end
    \/ ctrlc_signal
    \/ ctrlc_println
    \/ ctrlc_exit

Spec == Init /\ [][Next]_vars

\* ------------------------------------- the multiplication over the whole of u64
\* --duration values of the whole u64 range, around 0, around u64::MAX / 60 =
\* 0x0444_4444_4444_4444 and up to u64::MAX
WideMinutes ==
    {<<a, b, c, d>> : a \in {0, 1, 17476, 17477, 65535}, b \in {0, 17476, 65535},
                      c \in {0, 17476, 65535}, d \in {0, 1092, 1093, 65535}}

\* the build decides what an overflowing u64 multiplication does: with overflow
\* checks (debug profile) it panics, without them (release profile) it wraps
Builds == {"debug", "release"}

\* `start --duration=<u64>`, the duration held in mul.minutes
WideRuns ==
    {Run(c, Quiet, 43200, FALSE) :
        c \in {x \in StartCmds : x.duration = 0 /\ x.task = <<>>}}

MulInit ==
    /\ Launch(WideRuns)
    /\ mul \in {[minutes |-> m, build |-> b, out |-> <<>>] : m \in WideMinutes, b \in Builds}

\* run_fancy_timer: let total_seconds = minutes * 60, the product fits or wraps
multiply_wrapping ==
    /\ mul.out = <<>>
    /\ LET r == mul_u64(mul.minutes, SecondsPerMinute)
       IN  /\ r.carry = 0 \/ mul.build = "release"
           /\ mul' = [mul EXCEPT !.out = <<[panic |-> FALSE, total |-> r.digits]>>]
    /\ UNCHANGED <<cmd, env, answers, pc, i, cur, intervals, trace, timerVars>>
    /\ UNCHANGED <<fsVars, outVars, soundVars, sigVars>>

\* run_fancy_timer: let total_seconds = minutes * 60, the product does not fit and
\* the build checks overflow: panic "attempt to multiply with overflow"
multiply_panic ==
    /\ mul.out = <<>>
    /\ LET r == mul_u64(mul.minutes, SecondsPerMinute)
       IN  /\ r.carry # 0 /\ mul.build = "debug"
           /\ mul' = [mul EXCEPT !.out = <<[panic |-> TRUE, total |-> <<>>]>>]
    /\ UNCHANGED <<cmd, env, answers, pc, i, cur, intervals, trace, timerVars>>
    /\ UNCHANGED <<fsVars, outVars, soundVars, sigVars>>

MulNext == multiply_wrapping \/ multiply_panic

MulSpec == MulInit /\ [][MulNext]_vars

\* ==================================================================== claims
\* helpers of the claims
IsPrefix(a, b) == Len(a) <= Len(b) /\ a = SubSeq(b, 1, Len(a))

CountKind(seq, kind) == Cardinality({p \in 1..Len(seq) : seq[p].kind = kind})

\* the interval sequence a Schedule of n sessions stands for: Work and break in
\* turn, every break short but the last one, which is long
PlannedIntervals(n, work, short_break, long_break, label) ==
    [p \in 1..(2 * n) |->
        IF p % 2 = 1
        THEN [kind |-> "Work", minutes |-> work, label |-> label]
        ELSE IF p < 2 * n
             THEN [kind |-> "ShortBreak", minutes |-> short_break, label |-> "Time to relax"]
             ELSE [kind |-> "LongBreak", minutes |-> long_break, label |-> "Time to relax"]]

\* the label of the command's Work intervals: the --task given, or "no description"
CmdLabel == IF cmd.task = <<>> THEN "no description" ELSE cmd.task[1]

PlannedForCmd ==
    PlannedIntervals(cmd.sessions, cmd.work, cmd.short_break, cmd.long_break, CmdLabel)

\* C1: a schedule of n >= 1 sessions runs, in this order, Work and break in turn:
\* n Work intervals (work duration, task label), n-1 ShortBreaks (short-break
\* duration) and one LongBreak (long-break duration), the LongBreak last; at any
\* moment the intervals started so far are a prefix of that sequence.
C1_ScheduleIntervals ==
    (cmd.kind = "schedule" /\ cmd.sessions >= 1) =>
        /\ IsPrefix(intervals, PlannedForCmd)
        /\ pc = "done" =>
             /\ intervals = PlannedForCmd
             /\ CountKind(intervals, "Work") = cmd.sessions
             /\ CountKind(intervals, "ShortBreak") = cmd.sessions - 1
             /\ CountKind(intervals, "LongBreak") = 1
             /\ intervals[Len(intervals)].kind = "LongBreak"

\* a schedule of MaxSessions sessions with a real work duration has run to its end
C1_Witness ==
    /\ cmd.kind = "schedule"
    /\ cmd.sessions = MaxSessions
    /\ cmd.work >= 1
    /\ pc = "done"
    /\ Len(intervals) = 2 * MaxSessions

\* C2: the events of the main thread come in the order countdown start, countdown
\* at zero, log write (Work only), notification, next countdown start: a log write
\* or notification of an interval directly follows what precedes it in that order,
\* a countdown starts only right after the notification of the interval before,
\* and while the log write or the notification is due the countdown has run out.
C2_EventOrder ==
    /\ \A p \in 1..Len(trace) :
         LET e == trace[p]
             k == e[2]
         IN  /\ k \in 1..Len(intervals)
             /\ e[1] = "start" =>
                  IF p = 1 THEN k = 1 ELSE trace[p - 1] = <<"notify", k - 1>>
             /\ e[1] = "zero" => p > 1 /\ trace[p - 1] = <<"start", k>>
             /\ e[1] = "log" =>
                  /\ intervals[k].kind = "Work"
                  /\ p > 1 /\ trace[p - 1] = <<"zero", k>>
             /\ e[1] = "notify" =>
                  /\ p > 1
                  /\ trace[p - 1] = IF intervals[k].kind = "Work"
                                    THEN <<"log", k>> ELSE <<"zero", k>>
    /\ pc \in {"log", "notify"} =>
         /\ range_end = 0
         /\ ticks = cur[1].minutes * 60
         /\ trace[Len(trace)][1] \in {"zero", "log"}

\* two full sessions with real durations have run: 7 events each
C2_Witness ==
    /\ cmd.kind = "schedule"
    /\ cmd.sessions >= 2
    /\ cmd.work >= 1
    /\ cmd.short_break >= 1
    /\ pc = "done"
    /\ Len(trace) >= 14

\* the remaining time the status line shows
ShownRemaining == status[1].mmss[1] * 60 + status[1].mmss[2]

C3_State ==
    LET total == cur[1].minutes * 60
    IN  /\ pc = "timer" =>
             /\ ticks <= total
             /\ slept = ticks
             /\ range_end = total - ticks
             /\ ticks >= 1 => ShownRemaining = total - ticks
        /\ pc \in {"log", "notify", "ret"} =>
             /\ ticks = total
             /\ slept = total
             /\ total >= 1 => ShownRemaining = 0

C3_Step ==
    /\ ticks' = ticks + 1 =>
         /\ clock' = clock + 1
         /\ ticks >= 1 => ShownRemaining' = ShownRemaining - 1
    /\ (pc' = "timer" /\ cur'[1].minutes = 0) =>
         /\ ticks' = 0
         /\ status' = status
         /\ clock' = clock

\* C3: a countdown of duration_seconds performs exactly duration_seconds ticks, each
\* one status line and one second of sleep; the status line of tick k shows
\* duration_seconds - k, one less per tick, and 0 at the last tick; a countdown of
\* zero seconds writes no status line and sleeps not at all.
C3_Countdown == []C3_State /\ [][C3_Step]_vars

\* a countdown of one minute has returned to run_work_session after its 60 ticks
C3_Witness ==
    /\ pc = "log"
    /\ cur[1].minutes = 1
    /\ ticks = 60
    /\ ShownRemaining = 0

\* C4: when Ctrl+C arrives while the countdown of an interval is in progress,
\* neither the log write nor the notification of that interval ever happens,
\* however the handler thread and the main thread interleave.
C4_NoEffectAfterInterrupt ==
    sig_iv # 0 =>
        \A p \in 1..Len(trace) :
            trace[p] \notin {<<"log", sig_iv>>, <<"notify", sig_iv>>}

\* the steps of the main thread
MainStep ==
    \/ main_start
    \/ main_break
    \/ main_schedule
    \/ tick
    \/ timer_return
    \/ log_completed_task
    \/ notify
    \/ run_schedule_break
    \/ run_schedule_next
    \/ main_return
    \/ main_default
    \/ default_break
    \/ default_confirm

\* the intervals of the command's failure-free run
PlannedRun ==
    CASE cmd.kind = "start" ->
           <<[kind |-> "Work", minutes |-> cmd.duration, label |-> CmdLabel]>>
      [] cmd.kind = "break" ->
           <<[kind |-> IF cmd.long THEN "LongBreak" ELSE "ShortBreak",
              minutes |-> cmd.duration, label |-> "Time to relax"]>>
      [] cmd.kind = "schedule" -> PlannedForCmd
      [] cmd.kind = "default" ->
           [k \in 1..(2 * (IF Alive THEN Len(answers) + 1 ELSE Len(answers))) |->
              IF k % 2 = 1
              THEN [kind |-> "Work", minutes |-> DefaultWorkMinutes,
                    label |-> IF k <= Len(intervals) THEN intervals[k].label
                              ELSE "Focused work"]
              ELSE [kind |-> "ShortBreak", minutes |-> DefaultBreakMinutes,
                    label |-> "Time to relax"]]

CountEvents(name) == Cardinality({p \in 1..Len(trace) : trace[p][1] = name})

\* C5: whatever the log write, the desktop notification and the sound playback do,
\* the run goes through the intervals of the failure-free run, in order, and
\* completes: the main thread can always take its next step, a completed run has
\* run exactly the planned intervals with one notification each and one log call
\* per Work interval, and the run ends early only by the Ctrl+C handler's exit.
C5_FailuresContained ==
    /\ IsPrefix(intervals, PlannedRun)
    /\ Alive => ENABLED MainStep
    /\ pc = "done" =>
         /\ intervals = PlannedRun
         /\ CountEvents("notify") = Len(intervals)
         /\ CountEvents("log") = CountKind(intervals, "Work")
    /\ pc = "exited" => sig = "printed"

\* a schedule of several sessions has completed although a log write, a desktop
\* notification and a sound playback have failed
C5_Witness ==
    /\ cmd.kind = "schedule"
    /\ cmd.sessions >= 2
    /\ pc = "done"
    /\ Len(log_ok) < CountKind(intervals, "Work")
    /\ show_errs >= 1
    /\ sound_done # <<>>
    /\ sound_done[1].errs >= 1

\* the lines the successful log calls wrote to file f, in call order
LinesWritten(f) ==
    LET InF(e) == e.file = f
        sel == SelectSeq(log_ok, InF)
    IN  [p \in 1..Len(sel) |-> sel[p].line]

TotalLines(fs) ==
    LET RECURSIVE Sum(_)
        Sum(S) == IF S = {} THEN 0
                  ELSE LET f == CHOOSE x \in S : TRUE
                       IN  Len(fs[f]) + Sum(S \ {f})
    IN  Sum(DOMAIN fs)

C6_State ==
    /\ \A f \in DOMAIN files : files[f] = LinesWritten(f)
    /\ \A p \in 1..Len(log_ok) : log_ok[p].file \in DOMAIN files
    /\ DOMAIN files # {} => dir_exists

C6_Step ==
    /\ dir_exists => dir_exists'
    /\ \A f \in DOMAIN files : f \in DOMAIN files' /\ IsPrefix(files[f], files'[f])
    /\ TotalLines(files') <= TotalLines(files) + 1
    /\ log_ok' # log_ok =>
         LET tod == clock % 86400
             day == clock \div 86400
             line == [hms |-> <<tod \div 3600, (tod % 3600) \div 60, tod % 60>>,
                      task |-> cur[1].description]
         IN  /\ log_ok' = Append(log_ok, [file |-> day, line |-> line])
             /\ files'[day] = Append(IF day \in DOMAIN files THEN files[day] ELSE <<>>, line)
             /\ TotalLines(files') = TotalLines(files) + 1

\* C6: the task log is append-only. Each file of the log directory holds exactly
\* the lines of the successful calls of its day (earlier runs included), in call
\* order; a step never removes a file, never changes or reorders a line already
\* written and adds at most one line; a successful call adds the one line
\* HH:MM:SS | task at the end of the file of the current day, whether or not the
\* directory and the file existed before.
C6_AppendOnly == []C6_State /\ [][C6_Step]_vars

\* a file that held a line of an earlier run has received two more lines
C6_Witness ==
    \E f \in DOMAIN files :
        /\ Len(files[f]) >= 3
        /\ files[f][1].task = "earlier"
        /\ Len(log_ok) >= 3

\* C7 (as claimed): a completed `start --duration=d --task=t` has run the
\* interval sequence of a Schedule of one session with work duration d and task t:
\* the Work interval and then the LongBreak, each with its notification.
C7_StartIsOneSessionSchedule ==
    (cmd.kind = "start" /\ pc = "done") =>
        /\ \E l \in Minutes :
             intervals = PlannedIntervals(1, cmd.duration, 0, l, CmdLabel)
        /\ CountEvents("notify") = 2

\* C7 (amended): a completed `start --duration=d --task=t` has run exactly one
\* Work interval of d minutes labelled t, with the events countdown start,
\* countdown at zero, log write, notification: the one-session schedule's sequence
\* up to and including the work-completion notification, and no LongBreak.
C7_StartIsWorkOnly ==
    (cmd.kind = "start" /\ pc = "done") =>
        /\ intervals = <<[kind |-> "Work", minutes |-> cmd.duration, label |-> CmdLabel]>>
        /\ trace = <<<<"start", 1>>, <<"zero", 1>>, <<"log", 1>>, <<"notify", 1>>>>
        /\ \A l \in Minutes :
             intervals = SubSeq(PlannedIntervals(1, cmd.duration, 0, l, CmdLabel), 1, 1)

\* a start command with a task and a real duration has completed
C7_Witness ==
    /\ cmd.kind = "start"
    /\ cmd.task # <<>>
    /\ cmd.duration >= 1
    /\ pc = "done"
    /\ spawned = 1

\* the fallback lines notify can have printed for the intervals notified so far
FallbackLines ==
    {[title |-> IF intervals[k].kind = "Work"
                THEN "Pomodoro completed!" ELSE "Break ended!",
      message |-> IF intervals[k].kind = "Work"
                  THEN [text |-> "You completed a pomodoro",
                        minutes |-> intervals[k].minutes, task |-> intervals[k].label]
                  ELSE [text |-> "Your break has ended",
                        minutes |-> intervals[k].minutes, task |-> ""]] :
        k \in {trace[p][2] : p \in {q \in 1..Len(trace) : trace[q][1] = "notify"}}}

\* C8: notify always returns to its caller: while a notification is due the call
\* can be made, and once made the main thread is back in the caller; every failed
\* desktop notification has printed its `title: message` line, a successful one
\* prints nothing; every call, failed or not, has spawned exactly one sound thread.
C8_NotifyReturns ==
    /\ (Alive /\ pc = "notify") => ENABLED notify
    /\ (trace # <<>> /\ trace[Len(trace)][1] = "notify") => pc \in {"ret", "done", "exited"}
    /\ stdout_n = show_errs
    /\ stdout_n = 0 <=> stdout_last = <<>>
    /\ stdout_last # <<>> => stdout_last[1] \in FallbackLines
    /\ spawned = CountEvents("notify")

\* notify has returned from a call whose desktop notification failed and from
\* one whose desktop notification was shown
C8_Witness ==
    /\ pc = "ret"
    /\ CountEvents("notify") >= 2
    /\ show_errs >= 1
    /\ show_errs < CountEvents("notify")
    /\ spawned = CountEvents("notify")

Range(seq) == {seq[p] : p \in 1..Len(seq)}

\* candidate k of the sound thread exists on disk
CandidateExists(k) == sound_paths(env.exe_ok)[k] \in env.sound_files

ExistingCandidates == {k \in 1..4 : CandidateExists(k)}

\* C9 (as claimed): a sound thread that has ended has called play_sound on at
\* most one candidate, the first that exists, and has written a failure message
\* whenever it has played nothing (no candidate exists, or the playback failed).
C9_FirstExistingOnly ==
    sound_done # <<>> =>
        LET r == sound_done[1]
        IN  /\ Len(r.tried) <= 1
            /\ r.tried # <<>> => \A k \in ExistingCandidates : r.tried[1] <= k
            /\ r.played = <<>> => r.errs >= 1

\* what holds of a sound thread, running or ended
SoundThreadOk(r) ==
    /\ \A q \in 1..Len(r.tried) :
         /\ r.tried[q] \in ExistingCandidates
         /\ q > 1 => r.tried[q - 1] < r.tried[q]
    /\ r.tried # <<>> =>
         \A k \in ExistingCandidates : k <= r.tried[Len(r.tried)] => k \in Range(r.tried)
    /\ Len(r.played) <= 1
    /\ r.played # <<>> => r.played[1] = r.tried[Len(r.tried)]
    /\ r.errs = Len(r.tried) - Len(r.played)
    /\ r.st = "spawned" => r.tried = <<>> /\ r.played = <<>>
    /\ r.st = "playing" => r.played # <<>>
    /\ (r.st = "ended" /\ r.played = <<>>) => Range(r.tried) = ExistingCandidates

\* C9 (amended): a sound thread goes through the four candidates in their fixed
\* order and calls play_sound on each one that exists, in order, until one
\* playback succeeds; each failed playback writes one failure message and the
\* thread goes on to the next candidate; at most one candidate is played per
\* notification, always the last one tried; a thread that ends without playing has
\* tried every existing candidate, and when none exists it has written no message.
C9_TriesInOrderUntilPlayed ==
    \A r \in BagToSet(sounds) \cup Range(sound_done) : SoundThreadOk(r)

\* a sound thread has ended after the playback of the first existing candidate
\* failed and a later candidate was played
C9_Witness ==
    /\ sound_done # <<>>
    /\ sound_done[1].errs >= 1
    /\ sound_done[1].played # <<>>
    /\ \E k \in ExistingCandidates : k < sound_done[1].played[1]

C10_State ==
    (Alive /\ sounds # EmptyBag) => ENABLED MainStep

C10_Step ==
    /\ (pc = "notify" /\ pc' = "ret") =>
         /\ CopiesIn(NewSoundThread, sounds') = CopiesIn(NewSoundThread, sounds) + 1
         /\ BagCardinality(sounds') = BagCardinality(sounds) + 1
         /\ sound_done' = sound_done
    /\ (pc' # pc \/ ticks' # ticks) => (pc = "notify" \/ sounds' = sounds)
    /\ (pc' # pc \/ ticks' # ticks) => sound_done' = sound_done

\* C10: sound playback never blocks the main flow. notify returns with the thread
\* it spawned still alive and not yet started; whenever sound threads are alive
\* the main thread can take its next step; and no step of the main thread but the
\* spawn in notify reads a result from, waits for or changes a sound thread.
C10_SoundNeverBlocks == []C10_State /\ [][C10_Step]_vars

\* the countdown of a later interval is ticking while one sound thread is playing
\* and another has not started yet
C10_Witness ==
    /\ pc = "timer"
    /\ ticks >= 1
    /\ BagCardinality(sounds) >= 2
    /\ \E r \in BagToSet(sounds) : r.st = "spawned"
    /\ \E r \in BagToSet(sounds) : r.st = "playing"

\* C11: when a command completes normally the process does not exit while a sound
\* thread is still alive: every sound thread spawned has ended before main returns.
C11_NoSoundCutOffAtExit ==
    pc = "done" => sounds = EmptyBag

\* C13: every Schedule the schedule command runs has session_count >= 1 and
\* strictly positive work, short-break and long-break durations.
C13_SchedulePositive ==
    (cmd.kind = "schedule" /\ pc # "main") =>
        /\ cmd.sessions >= 1
        /\ cmd.work >= 1
        /\ cmd.short_break >= 1
        /\ cmd.long_break >= 1

\* the lines this run has appended to the log: all lines but the one of an earlier run
Appended ==
    TotalLines(files) - (IF log_ok # <<>> /\ log_ok[1] = EarlierEntry THEN 1 ELSE 0)

\* the Work intervals whose countdown has run to completion
WorkCompleted ==
    Cardinality({k \in 1..Len(intervals) :
                    /\ intervals[k].kind = "Work"
                    /\ \E p \in 1..Len(trace) : trace[p] = <<"zero", k>>})

\* C14 (as claimed): only the completion of a Work interval writes the log, and after
\* a completed run the number of lines appended equals the number of Work intervals
\* that ran to completion (one for start, n for a schedule of n sessions, zero for break).
C14_LinesEqualWorkIntervals ==
    /\ \A p \in 1..Len(trace) :
          trace[p][1] = "log" => intervals[trace[p][2]].kind = "Work"
    /\ pc = "done" =>
         /\ Appended = WorkCompleted
         /\ Appended = CASE cmd.kind = "start" -> 1
                         [] cmd.kind = "break" -> 0
                         [] cmd.kind = "schedule" -> cmd.sessions
                         [] OTHER -> Appended

C14_State ==
    /\ \A p \in 1..Len(trace) :
          trace[p][1] = "log" => intervals[trace[p][2]].kind = "Work"
    /\ \A k \in 1..Len(intervals) :
          Cardinality({p \in 1..Len(trace) : trace[p] = <<"log", k>>}) <= 1
    /\ CountEvents("log") <= WorkCompleted
    /\ WorkCompleted <= CountEvents("log") + 1
    /\ Appended <= CountEvents("log")
    /\ (env.home /\ env.disk = "ok") => Appended = CountEvents("log")
    /\ cmd.kind = "break" => Appended = 0 /\ CountEvents("log") = 0
    /\ pc = "done" =>
         /\ CountEvents("log") = WorkCompleted
         /\ WorkCompleted = CountKind(intervals, "Work")
         /\ cmd.kind = "start" => WorkCompleted = 1
         /\ cmd.kind = "schedule" => WorkCompleted = cmd.sessions

C14_Step ==
    /\ <<dir_exists, files, log_ok>>' # <<dir_exists, files, log_ok>> =>
         /\ pc = "log"
         /\ cur[1].kind = "Work"
         /\ trace[Len(trace)] = <<"zero", Len(intervals)>>
         /\ trace' = Append(trace, <<"log", Len(intervals)>>)
    /\ (cur # <<>> /\ cur[1].kind # "Work" /\ cur' = cur) =>
         /\ <<dir_exists, files, log_ok>>' = <<dir_exists, files, log_ok>>
         /\ trace' # trace =>
              \E e \in {"zero", "notify"} : trace' = Append(trace, <<e, Len(intervals)>>)

\* C14 (amended): the log is touched only by the one log call that follows the
\* completed countdown of a Work interval. A break interval leaves the log directory
\* unchanged and is followed by its notification only. The run makes one log call per
\* completed Work interval (one for start, n for a schedule of n sessions, none for
\* break), each call appends at most one line, and the lines appended equal the calls
\* made when the home directory resolves and the disk does not fail.
C14_LogOnlyAfterWork == []C14_State /\ [][C14_Step]_vars

\* a schedule of two sessions has completed: two lines appended, after a short and
\* a long break that appended none
C14_Witness ==
    /\ cmd.kind = "schedule"
    /\ cmd.sessions = 2
    /\ pc = "done"
    /\ CountKind(intervals, "ShortBreak") = 1
    /\ CountKind(intervals, "LongBreak") = 1
    /\ Appended = 2

\* the Work/ShortBreak pairs of the default loop that have run to their second
\* notification
PairsCompleted ==
    Cardinality({k \in 1..Len(intervals) :
                    /\ k % 2 = 0
                    /\ \E p \in 1..Len(trace) : trace[p] = <<"notify", k>>})

YesAnswers == Cardinality({p \in 1..Len(answers) : answers[p] = "yes"})

\* C12: with no subcommand the program runs cycles of one Work interval of 25 minutes
\* followed by one ShortBreak of 5 minutes, never a LongBreak; it asks the operator
\* once after each completed pair, starts another cycle only after the answer yes,
\* and main returns when the answer is no or the prompt cannot be answered.
C12_DefaultLoop ==
    cmd.kind = "default" =>
        /\ \A k \in 1..Len(intervals) :
              IF k % 2 = 1
              THEN intervals[k].kind = "Work" /\ intervals[k].minutes = 25
              ELSE intervals[k].kind = "ShortBreak" /\ intervals[k].minutes = 5
        /\ pc = "timer" =>
              ticks + range_end = (IF cur[1].kind = "Work" THEN 25 ELSE 5) * 60
        /\ Len(answers) <= PairsCompleted
        /\ PairsCompleted <= Len(answers) + 1
        /\ PairsCompleted = Len(answers) + 1 =>
              pc = "ret" /\ cur[1].kind = "ShortBreak"
        /\ \A p \in 1..Len(answers) : p < Len(answers) => answers[p] = "yes"
        /\ pc # "main" => CountKind(intervals, "Work") = 1 + YesAnswers
        /\ pc = "done" <=>
              answers # <<>> /\ answers[Len(answers)] \in {"no", "err"}
        /\ pc = "done" => Len(intervals) = 2 * Len(answers)
        /\ pc # "exited"

\* the default loop has run two cycles: yes after the first pair, and the prompt
\* could not be answered after the second
C12_Witness ==
    /\ cmd.kind = "default"
    /\ pc = "done"
    /\ answers = <<"yes", "err">>
    /\ Len(intervals) = 4
    /\ intervals[3].label = "Focused work"

\* a < b on u64
U64Less(a, b) ==
    \E k \in 1..4 : a[k] < b[k] /\ \A j \in (k + 1)..4 : a[j] = b[j]

\* C15: for every u64 duration in minutes the multiplication minutes * 60 does not
\* overflow: it does not panic, nothing of the product is lost, and the number of
\* seconds counted down is not smaller than the number of minutes asked for.
C15_NoOverflow ==
    mul.out # <<>> =>
        /\ ~mul.out[1].panic
        /\ ~U64Less(<<17476, 17476, 17476, 1092>>, mul.minutes)
        /\ ~U64Less(mul.out[1].total, mul.minutes)

====
